---- MODULE Spec2Model ----
(***************************************************************************)
(* Model of packages/react/index.ts of pompom: the process-wide condition  *)
(* registry (conditionIdMap), defineConfig (id generation and stylesheet   *)
(* text) and the style resolver (processStyles, getPropertyValue).         *)
(*                                                                         *)
(* JavaScript values are tagged records, objects are sequences of          *)
(* [k, v] entries in for-in order, CSS text is a TLA+ string built with \o.*)
(* A raw selector / query is a sequence of one-character strings so that   *)
(* startsWith and replace can be computed as the code computes them.       *)
(***************************************************************************)
EXTENDS Integers, Sequences, FiniteSets, TLC

VARIABLES
    conditionIdMap, \* the module-level Map: registered name -> variable id
    configs,        \* one record per defineConfig call made so far
    issued,         \* every id getId has returned, in order (history)
    pc,             \* "ready": the host may call; "returned": a call returned
    ret,            \* the last call, with the value it returned
    console         \* what the last call wrote with console.warn / console.log

vars == <<conditionIdMap, configs, issued, pc, ret, console>>

---------------------------------------------------------------------------
(* Bounds of the model *)

MaxConfigs == 2      \* defineConfig calls in one process
MaxRawLen == 2       \* characters of a raw selector / query text
MaxNodeSize == 3     \* keys of a style object, nested objects included

---------------------------------------------------------------------------
(* JavaScript values *)

Num(n) == [t |-> "number", n |-> n]
Str(s) == [t |-> "string", s |-> s]
Obj(o) == [t |-> "object", o |-> o]
Undefined == [t |-> "undefined"]
Null == [t |-> "null"]

\* typeof value === 'object' && value !== null
IsObject(value) == value.t = "object"

\* The values JavaScript's || and ! treat as false.
Falsy(value) ==
    \/ value.t \in {"undefined", "null"}
    \/ value.t = "number" /\ value.n = 0
    \/ value.t = "string" /\ value.s = ""

\* String(value), as a template literal converts its holes.
ToStr(value) ==
    CASE value.t = "number" -> ToString(value.n)
      [] value.t = "string" -> value.s
      [] value.t = "object" -> "[object Object]"
      [] value.t = "null" -> "null"
      [] OTHER -> "undefined"

\* An object as an ordered map: sequences of [k, v] with distinct keys.
Keys(m) == {m[i].k : i \in 1..Len(m)}
MapHas(m, k) == k \in Keys(m)
MapGet(m, k) ==
    IF MapHas(m, k) THEN m[CHOOSE i \in 1..Len(m) : m[i].k = k].v ELSE Undefined
MapSet(m, k, v) ==
    IF MapHas(m, k)
    THEN [i \in 1..Len(m) |-> IF m[i].k = k THEN [k |-> k, v |-> v] ELSE m[i]]
    ELSE Append(m, [k |-> k, v |-> v])

---------------------------------------------------------------------------
(* Text of selectors and queries *)

RECURSIVE Text(_)
Text(chars) == IF chars = <<>> THEN "" ELSE Head(chars) \o Text(Tail(chars))

\* value.startsWith('@')
StartsWithAt(chars) == Len(chars) > 0 /\ chars[1] = "@"

\* selector.replace('&', '*'): a string pattern replaces the first match only.
ReplaceAmp(chars) ==
    IF \E i \in 1..Len(chars) : chars[i] = "&"
    THEN LET first == CHOOSE i \in 1..Len(chars) :
                        /\ chars[i] = "&"
                        /\ \A j \in 1..(i - 1) : chars[j] # "&"
         IN  [i \in 1..Len(chars) |-> IF i = first THEN "*" ELSE chars[i]]
    ELSE chars

getSelectorStylesheet(selector, id) ==
    "*{--" \o id \o "-0:initial;--" \o id \o "-1: ;} " \o Text(ReplaceAmp(selector))
        \o "{--" \o id \o "-0: ;--" \o id \o "-1:initial;}"

getBlockStylesheet(block, id) ==
    "*{--" \o id \o "-0:initial;--" \o id \o "-1: ;} " \o Text(block)
        \o "{*{--" \o id \o "-0: ;--" \o id \o "-1:initial;}}"

\* getPropertyValue with the two toggle variables exchanged.
getPropertyValueSwapped(varId, on, off) ==
    "var(--" \o varId \o "-0," \o ToStr(on) \o ") var(--" \o varId \o "-1,"
        \o (IF Falsy(off) THEN "revert-layer" ELSE ToStr(off)) \o ")"

getPropertyValue(varId, on, off) ==
    "var(--" \o varId \o "-1," \o ToStr(on) \o ") var(--" \o varId \o "-0,"
        \o (IF Falsy(off) THEN "revert-layer" ELSE ToStr(off)) \o ")"

\* stylesheet.join('\n')
RECURSIVE Join(_)
Join(parts) ==
    IF parts = <<>> THEN ""
    ELSE IF Len(parts) = 1 THEN parts[1]
    ELSE parts[1] \o "\n" \o Join(Tail(parts))

---------------------------------------------------------------------------
(* defineConfig *)

\* options.cssVariablePrefix || 'p'
cssVarPrefix(options) ==
    IF options.cssVariablePrefix = "" THEN "p" ELSE options.cssVariablePrefix

\* getId building the id before it increments idx.
getIdBeforeIncrement(prefix, idx, map, name) ==
    LET id == prefix \o ToString(idx)
    IN  [idx |-> idx + 1,
         id  |-> id,
         map |-> [n \in DOMAIN map \cup {name} |-> IF n = name THEN id ELSE map[n]]]

\* getId: idx++, id = cssVarPrefix + idx, conditionIdMap.set(name, id)
getId(prefix, idx, map, name) ==
    LET id == prefix \o ToString(idx + 1)
    IN  [idx |-> idx + 1,
         id  |-> id,
         map |-> [n \in DOMAIN map \cup {name} |-> IF n = name THEN id ELSE map[n]]]

\* The for-in loop over options.conditions, from entry i on.
RECURSIVE conditionsLoop(_, _, _, _)
conditionsLoop(conditions, i, prefix, acc) ==
    IF i > Len(conditions) THEN acc
    ELSE LET name == conditions[i].k
             value == conditions[i].v
         IN  IF value = <<>>
             THEN conditionsLoop(conditions, i + 1, prefix, acc)
             ELSE LET g == getId(prefix, acc.idx, acc.map, name)
                      rule == IF StartsWithAt(value)
                              THEN getBlockStylesheet(value, g.id)
                              ELSE getSelectorStylesheet(value, g.id)
                  IN  conditionsLoop(conditions, i + 1, prefix,
                        [idx |-> g.idx,
                         map |-> g.map,
                         stylesheet |-> Append(acc.stylesheet, rule),
                         ids |-> Append(acc.ids, [name |-> name, id |-> g.id])])

defineConfig(map, options) ==
    conditionsLoop(options.conditions, 1, cssVarPrefix(options),
        [idx |-> 0, map |-> map, stylesheet |-> <<>>, ids |-> <<>>])

---------------------------------------------------------------------------
(* style *)

\* options.properties of the configurations: the documented shorthand
\* p: v => ({ padding: v * 4 + 'px' }).
HasProperty(key) == key = "p"

\* v * 4 + 'px' (the strings of the model other than "" are not numeric)
Times4Px(value) ==
    CASE value.t = "number" -> ToString(value.n * 4) \o "px"
      [] value.t = "string" /\ value.s = "" -> "0px"
      [] value.t = "null" -> "0px"
      [] OTHER -> "NaNpx"

properties(key, value) == <<[k |-> "padding", v |-> Str(Times4Px(value))]>>

\* for (const k in returnVal) pStyles[k] = returnVal[k]
RECURSIVE assignAll(_, _, _)
assignAll(pStyles, returnVal, j) ==
    IF j > Len(returnVal) THEN pStyles
    ELSE assignAll(MapSet(pStyles, returnVal[j].k, returnVal[j].v), returnVal, j + 1)

\* keyStep telling a condition by the shape of its value instead of by the
\* registry: an object under an unregistered key is reported and dropped.
keyStepByShape(map, acc, key, value) ==
    IF key \in DOMAIN map \/ IsObject(value)
    THEN IF key \in DOMAIN map /\ IsObject(value)
         THEN [acc EXCEPT !.conditionsToProcess =
                 Append(@, [name |-> key, id |-> map[key], value |-> value.o])]
         ELSE [acc EXCEPT !.console = Append(@, [key |-> key, received |-> value])]
    ELSE IF HasProperty(key)
         THEN [acc EXCEPT !.pStyles = assignAll(@, properties(key, value), 1)]
         ELSE [acc EXCEPT !.pStyles = MapSet(@, key, value)]

\* keyStep reporting a malformed condition and then assigning it as a property.
keyStepFallThrough(map, acc, key, value) ==
    IF key \in DOMAIN map /\ IsObject(value)
    THEN [acc EXCEPT !.conditionsToProcess =
            Append(@, [name |-> key, id |-> map[key], value |-> value.o])]
    ELSE LET told == IF key \in DOMAIN map
                     THEN [acc EXCEPT !.console =
                             Append(@, [key |-> key, received |-> value])]
                     ELSE acc
         IN  IF HasProperty(key)
             THEN [told EXCEPT !.pStyles = assignAll(@, properties(key, value), 1)]
             ELSE [told EXCEPT !.pStyles = MapSet(@, key, value)]

\* One iteration of the first loop of processStyles: the key is a registered
\* condition (queued when its value is an object, reported otherwise), a
\* shorthand property, or a literal property.
keyStep(map, acc, key, value) ==
    IF key \in DOMAIN map
    THEN IF IsObject(value)
         THEN [acc EXCEPT !.conditionsToProcess =
                 Append(@, [name |-> key, id |-> map[key], value |-> value.o])]
         ELSE [acc EXCEPT !.console = Append(@, [key |-> key, received |-> value])]
    ELSE IF HasProperty(key)
         THEN [acc EXCEPT !.pStyles = assignAll(@, properties(key, value), 1)]
         ELSE [acc EXCEPT !.pStyles = MapSet(@, key, value)]

\* for (const _key in _styles), from key i on.
RECURSIVE keysLoop(_, _, _, _)
keysLoop(map, styles, i, acc) ==
    IF i > Len(styles) THEN acc
    ELSE keysLoop(map, styles, i + 1, keyStep(map, acc, styles[i].k, styles[i].v))

\* for (const k in processedValue) pStyles[k] = getPropertyValue(c.id, ...)
RECURSIVE wrapAll(_, _, _, _)
wrapAll(pStyles, id, processedValue, j) ==
    IF j > Len(processedValue) THEN pStyles
    ELSE LET k == processedValue[j].k
         IN  wrapAll(MapSet(pStyles, k,
                        Str(getPropertyValue(id, processedValue[j].v, MapGet(pStyles, k)))),
                     id, processedValue, j + 1)

RECURSIVE processStyles(_, _)
RECURSIVE conditionsForEach(_, _, _, _)

\* conditionsToProcess.forEach(...), from condition i on.
conditionsForEach(map, conditionsToProcess, i, acc) ==
    IF i > Len(conditionsToProcess) THEN acc
    ELSE LET c == conditionsToProcess[i]
             processed == processStyles(map, c.value)
         IN  conditionsForEach(map, conditionsToProcess, i + 1,
               [pStyles |-> wrapAll(acc.pStyles, c.id, processed.pStyles, 1),
                console |-> acc.console \o processed.console])

processStyles(map, styles) ==
    LET first == keysLoop(map, styles, 1,
                    [pStyles |-> <<>>, conditionsToProcess |-> <<>>, console |-> <<>>])
    IN  conditionsForEach(map, first.conditionsToProcess, 1,
            [pStyles |-> first.pStyles, console |-> first.console])

-------------------------------------------------------------------------------------------------------------------------------------------------
(* Inputs *)

Names == {"hover", "dark"}
Prefixes == {"", "q"}
Chars == {"&", "@"}

RECURSIVE SeqsUpTo(_, _)
SeqsUpTo(S, n) ==
    IF n = 0 THEN {<<>>}
    ELSE LET shorter == SeqsUpTo(S, n - 1)
         IN  shorter \cup {Append(s, x) : s \in shorter, x \in S}

\* Raw texts: "", "&", "@", "&&", "@&", ... (a character stands for itself;
\* any other selector text behaves as a character that is neither & nor @).
RawTexts == SeqsUpTo(Chars, MaxRawLen)

DistinctKeys(m) == \A i, j \in 1..Len(m) : i # j => m[i].k # m[j].k

\* options.conditions: objects over the condition names, in for-in order.
ConditionObjects(texts) ==
    {m \in SeqsUpTo({[k |-> n, v |-> t] : n \in Names, t \in texts}, Cardinality(Names)) :
        DistinctKeys(m)}

ConfigOptions ==
    {[conditions |-> c, cssVariablePrefix |-> p] :
        c \in ConditionObjects(RawTexts), p \in Prefixes}

\* The documented conditions hover: '&:hover' and dark: '.dark &'.
HoverOnly == <<[k |-> "hover", v |-> <<"&", ":hover">>]>>
HoverDark == Append(HoverOnly, [k |-> "dark", v |-> <<".dark ", "&">>])
SimpleOptions ==
    {[conditions |-> c, cssVariablePrefix |-> ""] : c \in {HoverOnly, HoverDark}}

PropKeys == {"padding", "p"}
Leaves == {Num(0), Str("x")}
Malformed == {Str("x"), Null}

\* Entries taking `size` keys in all, given table[i + 1] = the objects of i keys.
EntriesOfSize(table, size) ==
    (IF size = 1
     THEN {[k |-> k, v |-> v] : k \in PropKeys, v \in Leaves}
            \cup {[k |-> k, v |-> v] : k \in Names, v \in Malformed}
     ELSE {})
    \cup {[k |-> k, v |-> Obj(o)] : k \in Names, o \in table[size]}

\* Style objects by their number of keys, nested objects included:
\* NodesTable(n)[i + 1] = the objects of i keys, for i in 0..n.
RECURSIVE NodesTable(_)
NodesTable(n) ==
    IF n = 0 THEN <<{<<>>}>>
    ELSE LET table == NodesTable(n - 1)
         IN  Append(table,
               UNION {
                 UNION {
                   {<<e>> \o rest :
                      e \in {x \in EntriesOfSize(table, first) : x.k \notin Keys(rest)}}
                   : rest \in table[n - first + 1]}
                 : first \in 1..n})

Nodes(n) == LET table == NodesTable(n) IN UNION {table[i] : i \in 1..(n + 1)}

\* Every order of the entries of an object.
RECURSIVE Orders(_)
Orders(S) ==
    IF S = {} THEN {<<>>}
    ELSE UNION {{<<e>> \o rest : rest \in Orders(S \ {e})} : e \in S}

Entry(k, v) == [k |-> k, v |-> v]
ShapeLeaves == {Num(0), Str(""), Str("x"), Str("y")}

\* { padding: b, A: { padding: x }, B: { padding: y } } in every key order.
SiblingNodes ==
    UNION {Orders({Entry("padding", b),
                   Entry(A, Obj(<<Entry("padding", x)>>)),
                   Entry(B, Obj(<<Entry("padding", y)>>))}) :
           <<A, B, b, x, y>> \in {t \in Names \X Names \X ShapeLeaves \X ShapeLeaves \X ShapeLeaves :
                                   t[1] # t[2]}}

\* { padding: b, A: { padding: x, B: { padding: y } } } in every key order.
NestedNodes ==
    UNION {UNION {Orders({Entry("padding", b), Entry(A, Obj(inner))}) :
                  inner \in Orders({Entry("padding", x),
                                    Entry(B, Obj(<<Entry("padding", y)>>))})} :
           <<A, B, b, x, y>> \in {t \in Names \X Names \X ShapeLeaves \X ShapeLeaves \X ShapeLeaves :
                                   t[1] # t[2]}}

\* style({ p: 2, hover: { p: 4 } }), and a call without conditions.
ExampleNodes ==
    {<<Entry("p", Num(2)), Entry("hover", Obj(<<Entry("p", Num(4))>>))>>,
     <<Entry("p", Num(2)), Entry("color", Str("white"))>>}

StyleNodes == Nodes(MaxNodeSize) \cup SiblingNodes \cup NestedNodes \cup ExampleNodes

---------------------------------------------------------------------------
(* The process: a host that calls defineConfig and the style functions it   *)
(* returned, one call at a time, and reads what each call returned.         *)

Init ==
    /\ conditionIdMap = << >>
    /\ configs = <<>>
    /\ issued = <<>>
    /\ pc = "ready"
    /\ ret = [kind |-> "none"]
    /\ console = <<>>

\* defineConfig(options): registers the conditions, returns the stylesheet
\* and a style function; configs records the ids this call handed out.
DefineConfig(options) ==
    /\ pc = "ready"
    /\ Len(configs) < MaxConfigs
    /\ LET r == defineConfig(conditionIdMap, options)
       IN  /\ conditionIdMap' = r.map
           /\ configs' = Append(configs, [ids |-> r.ids])
           /\ issued' = issued \o [i \in 1..Len(r.ids) |-> r.ids[i].id]
           /\ ret' = [kind |-> "defineConfig", options |-> options,
                      stylesheet |-> Join(r.stylesheet)]
    /\ console' = <<>>
    /\ pc' = "returned"

\* A style function that registers the object-valued keys it does not know.
StyleRegistering(c, styles) ==
    /\ pc = "ready"
    /\ c \in 1..Len(configs)
    /\ LET r == processStyles(conditionIdMap, styles)
           learnt == {styles[i].k : i \in {j \in 1..Len(styles) : IsObject(styles[j].v)}}
       IN  /\ ret' = [kind |-> "style", config |-> c, styles |-> styles,
                      after |-> styles, out |-> r.pStyles]
           /\ console' = r.console
           /\ conditionIdMap' = [n \in DOMAIN conditionIdMap \cup learnt |->
                                   IF n \in DOMAIN conditionIdMap
                                   THEN conditionIdMap[n] ELSE "p0"]
    /\ pc' = "returned"
    /\ UNCHANGED <<configs, issued>>

\* The style function of configuration c, called on the object styles.
\* ret.after is the argument object as the call leaves it.
Style(c, styles) ==
    /\ pc = "ready"
    /\ c \in 1..Len(configs)
    /\ LET r == processStyles(conditionIdMap, styles)
       IN  /\ ret' = [kind |-> "style", config |-> c, styles |-> styles,
                      after |-> styles, out |-> r.pStyles]
           /\ console' = r.console
    /\ pc' = "returned"
    /\ UNCHANGED <<conditionIdMap, configs, issued>>

\* The host takes the returned value and goes on.
Continue ==
    /\ pc = "returned"
    /\ pc' = "ready"
    /\ ret' = [kind |-> "none"]
    /\ console' = <<>>
    /\ UNCHANGED <<conditionIdMap, configs, issued>>

\* The host's calls, with arguments from the sets O and N.
DefineConfigFrom(O) ==
    /\ pc = "ready"
    /\ \E options \in O : DefineConfig(options)
StyleFrom(N) ==
    /\ pc = "ready"
    /\ \E c \in 1..Len(configs), styles \in N : Style(c, styles)

\* Configuration in full, style calls on the documented examples.
Next ==
    \/ DefineConfigFrom(ConfigOptions \cup SimpleOptions)
    \/ StyleFrom(ExampleNodes)
    \/ Continue

Spec == Init /\ [][Next]_vars

\* The documented configurations, style calls on every bounded object.
NextStyle ==
    \/ DefineConfigFrom(SimpleOptions)
    \/ StyleFrom(StyleNodes)
    \/ Continue

SpecStyle == Init /\ [][NextStyle]_vars

---------------------------------------------------------------------------
(* Properties of the registry and of defineConfig (specification Spec)      *)

\* C1: after any sequence of defineConfig calls, no two distinct registered
\* names map to the same variable id, and every id handed out differs from
\* every id handed out before it.
C1_UniqueIds ==
    /\ \A n1, n2 \in DOMAIN conditionIdMap :
          n1 # n2 => conditionIdMap[n1] # conditionIdMap[n2]
    /\ \A i, j \in 1..Len(issued) : i # j => issued[i] # issued[j]

\* The conditions of an options object whose raw text is not empty.
Kept(conditions) == SelectSeq(conditions, LAMBDA e : e.v # <<>>)

\* The registry that the recorded calls cfgs leave behind, from call i on.
RECURSIVE Replay(_, _, _)
Replay(cfgs, i, map) ==
    IF i > Len(cfgs) THEN map
    ELSE Replay(cfgs, i + 1,
           [n \in DOMAIN map \cup {cfgs[i].ids[j].name : j \in 1..Len(cfgs[i].ids)} |->
              IF \E j \in 1..Len(cfgs[i].ids) : cfgs[i].ids[j].name = n
              THEN cfgs[i].ids[CHOOSE j \in 1..Len(cfgs[i].ids) : cfgs[i].ids[j].name = n].id
              ELSE map[n]])

\* C8: within one defineConfig call the conditions with non-empty raw text
\* receive <prefix>1, <prefix>2, ... in declaration order, whatever their
\* kind; a condition with empty raw text is skipped: the call neither
\* registers it nor spends a sequence number on it.
C8_SequentialIds ==
    ret.kind = "defineConfig" =>
      LET conditions == ret.options.conditions
          kept == Kept(conditions)
          prefix == IF ret.options.cssVariablePrefix = "" THEN "p"
                    ELSE ret.options.cssVariablePrefix
          mine == configs[Len(configs)].ids
          before == Replay(SubSeq(configs, 1, Len(configs) - 1), 1, << >>)
      IN  /\ Len(mine) = Len(kept)
          /\ \A i \in 1..Len(kept) :
                /\ mine[i] = [name |-> kept[i].k, id |-> prefix \o ToString(i)]
                /\ conditionIdMap[kept[i].k] = prefix \o ToString(i)
          /\ \A i \in 1..Len(conditions) :
                conditions[i].v = <<>> =>
                  IF conditions[i].k \in DOMAIN before
                  THEN /\ conditions[i].k \in DOMAIN conditionIdMap
                       /\ conditionIdMap[conditions[i].k] = before[conditions[i].k]
                  ELSE conditions[i].k \notin DOMAIN conditionIdMap

\* A call whose first condition is skipped and whose second, a block, is kept.
C8_Witness ==
    /\ ret.kind = "defineConfig"
    /\ Len(ret.options.conditions) = 2
    /\ ret.options.conditions[1].v = <<>>
    /\ StartsWithAt(ret.options.conditions[2].v)
    /\ ret.options.cssVariablePrefix = "q"

\* The raw selector with & replaced by *.
ReplaceEveryAmp(chars) == [i \in 1..Len(chars) |-> IF chars[i] = "&" THEN "*" ELSE chars[i]]

\* The fragment of one condition: the default rule, then the override rule.
Fragment(raw, id) ==
    LET default == "*{--" \o id \o "-0:initial;--" \o id \o "-1: ;}"
        override == "{--" \o id \o "-0: ;--" \o id \o "-1:initial;}"
    IN  IF StartsWithAt(raw)
        THEN default \o " " \o Text(raw) \o "{*" \o override \o "}"
        ELSE default \o " " \o Text(ReplaceEveryAmp(raw)) \o override

\* C9: the stylesheet text is the newline-joined concatenation of one
\* fragment per registered condition, in registration order: a default rule
\* (<id>-0 initial, <id>-1 empty) and an override rule (<id>-0 empty, <id>-1
\* initial) keyed by the raw selector with & replaced by *, or nested in the
\* raw block text when the text begins with @.
C9_Stylesheet ==
    ret.kind = "defineConfig" =>
      LET kept == Kept(ret.options.conditions)
          mine == configs[Len(configs)].ids
      IN  ret.stylesheet = Join([i \in 1..Len(mine) |-> Fragment(kept[i].v, mine[i].id)])

\* The keys that processStyles looks up successfully, at every depth it visits.
RECURSIVE TreatedAsCondition(_, _)
TreatedAsCondition(map, styles) ==
    {styles[i].k : i \in {j \in 1..Len(styles) : styles[j].k \in DOMAIN map}}
    \cup UNION {TreatedAsCondition(map, styles[i].v.o) :
                  i \in {j \in 1..Len(styles) :
                           styles[j].k \in DOMAIN map /\ IsObject(styles[j].v)}}

\* C10: a key is treated as a condition by the style function of a
\* configuration only if that configuration declared it, and the variable id
\* used for it is the id that configuration's stylesheet defines for it.
C10_Consistent ==
    ret.kind = "style" =>
      LET mine == configs[ret.config].ids
      IN  \A name \in TreatedAsCondition(conditionIdMap, ret.styles) :
            \E j \in 1..Len(mine) :
              mine[j].name = name /\ mine[j].id = conditionIdMap[name]

---------------------------------------------------------------------------
(* Properties of the style resolver (specification SpecStyle)               *)

\* The pair `var(--<id>-1,<on>) var(--<id>-0,<off>)`.
PairText(id, on, off) ==
    "var(--" \o id \o "-1," \o on \o ") var(--" \o id \o "-0," \o off \o ")"

RemoveAt(m, i) == SubSeq(m, 1, i - 1) \o SubSeq(m, i + 1, Len(m))

\* The positions of the conditions that processStyles queues for styles.
Queued(map, styles) ==
    {i \in 1..Len(styles) : styles[i].k \in DOMAIN map /\ IsObject(styles[i].v)}

\* C2: when the child map of a condition contains property k, the parent's
\* entry for k becomes var(--<id>-1,<child value>) var(--<id>-0,<off>), where
\* <off> is the parent's value for k whenever the parent has an entry for k
\* (also when that value is 0 or the empty string) and revert-layer only
\* when it has none; and style({p: 2, hover: {p: 4}}) gives padding the pair
\* on hover's id with 16px active and 8px inactive.
C2_Rewrite ==
    ret.kind = "style" =>
      /\ Cardinality(Queued(conditionIdMap, ret.styles)) = 1 =>
           LET i == CHOOSE j \in Queued(conditionIdMap, ret.styles) : TRUE
               id == conditionIdMap[ret.styles[i].k]
               child == processStyles(conditionIdMap, ret.styles[i].v.o).pStyles
               parent == processStyles(conditionIdMap, RemoveAt(ret.styles, i)).pStyles
           IN  \A j \in 1..Len(child) :
                 MapGet(ret.out, child[j].k) =
                   Str(PairText(id, ToStr(child[j].v),
                                IF MapHas(parent, child[j].k)
                                THEN ToStr(MapGet(parent, child[j].k))
                                ELSE "revert-layer"))
      /\ ret.styles = <<Entry("p", Num(2)), Entry("hover", Obj(<<Entry("p", Num(4))>>))>> =>
           ret.out = <<Entry("padding",
                         Str(PairText(conditionIdMap["hover"], "16px", "8px")))>>

\* A fallback chain as a term: a leaf text, or a pair on a variable id.
Leaf(text) == [leaf |-> text]
Pair(id, on, off) == [id |-> id, on |-> on, off |-> off]
IsLeaf(chain) == "leaf" \in DOMAIN chain

RECURSIVE Render(_)
Render(chain) ==
    IF IsLeaf(chain) THEN chain.leaf
    ELSE PairText(chain.id, Render(chain.on), Render(chain.off))

\* A pair yields its on branch when its variable id is active, else its off.
RECURSIVE Eval(_, _)
Eval(chain, active) ==
    IF IsLeaf(chain) THEN chain.leaf
    ELSE IF chain.id \in active THEN Eval(chain.on, active) ELSE Eval(chain.off, active)

PositionOf(styles, key) == CHOOSE i \in 1..Len(styles) : styles[i].k = key

\* C3: with a base value for k and sibling conditions A then B (in key
\* order) that both set k, the chain for k has B's pair outermost and A's
\* chain as its inactive branch: B's value when both are active, A's when
\* only A is, B's when only B is, the base value when neither is; wherever
\* the condition keys sit among the property keys.
C3_LastWins ==
    (ret.kind = "style" /\ ret.styles \in SiblingNodes /\ Names \subseteq DOMAIN conditionIdMap) =>
      LET styles == ret.styles
          queued == Queued(conditionIdMap, styles)
          a == CHOOSE i \in queued : \A j \in queued : i <= j
          b == CHOOSE i \in queued : \A j \in queued : j <= i
          idA == conditionIdMap[styles[a].k]
          idB == conditionIdMap[styles[b].k]
          x == ToStr(styles[a].v.o[1].v)
          y == ToStr(styles[b].v.o[1].v)
          base == ToStr(styles[PositionOf(styles, "padding")].v)
          chain == Pair(idB, Leaf(y), Pair(idA, Leaf(x), Leaf(base)))
      IN  /\ MapGet(ret.out, "padding") = Str(Render(chain))
          /\ \A active \in SUBSET {idA, idB} :
                Eval(chain, active) =
                  IF idB \in active THEN y ELSE IF idA \in active THEN x ELSE base

\* The nested shape { padding: base, A: { padding: x, B: { padding: y } } }.
NestedCase ==
    /\ ret.kind = "style"
    /\ ret.styles \in NestedNodes
    /\ Names \subseteq DOMAIN conditionIdMap

OuterOf(styles) == CHOOSE i \in 1..Len(styles) : IsObject(styles[i].v)

\* C4 as stated: the three-branch chain for k gives B's value if the
\* innermost condition B is active, else A's value if A is active, else the
\* base value, for every combination of A and B being active or inactive.
C4_NestingAsStated ==
    NestedCase =>
      LET outer == ret.styles[OuterOf(ret.styles)]
          inner == outer.v.o[OuterOf(outer.v.o)]
          idA == conditionIdMap[outer.k]
          idB == conditionIdMap[inner.k]
          base == ToStr(ret.styles[PositionOf(ret.styles, "padding")].v)
          x == ToStr(outer.v.o[PositionOf(outer.v.o, "padding")].v)
          y == ToStr(inner.v.o[1].v)
          chain == Pair(idA, Pair(idB, Leaf(y), Leaf(x)), Leaf(base))
      IN  /\ MapGet(ret.out, "padding") = Str(Render(chain))
          /\ \A active \in SUBSET {idA, idB} :
                Eval(chain, active) =
                  IF idB \in active THEN y ELSE IF idA \in active THEN x ELSE base

\* An inactive branch as getPropertyValue writes it.
OffText(value) == IF Falsy(value) THEN "revert-layer" ELSE ToStr(value)

\* C4, amended: the chain for k is
\*   var(--A-1,var(--B-1,y) var(--B-0,x')) var(--A-0,base')
\* where v' is v, or revert-layer when v is 0 or the empty string; it gives
\* B's value only when A and B are both active, x' when A is active and B is
\* not, and base' whenever A is inactive, B active or not.
C4_Nesting ==
    NestedCase =>
      LET outer == ret.styles[OuterOf(ret.styles)]
          inner == outer.v.o[OuterOf(outer.v.o)]
          idA == conditionIdMap[outer.k]
          idB == conditionIdMap[inner.k]
          base == OffText(ret.styles[PositionOf(ret.styles, "padding")].v)
          x == OffText(outer.v.o[PositionOf(outer.v.o, "padding")].v)
          y == ToStr(inner.v.o[1].v)
          chain == Pair(idA, Pair(idB, Leaf(y), Leaf(x)), Leaf(base))
      IN  /\ MapGet(ret.out, "padding") = Str(Render(chain))
          /\ \A active \in SUBSET {idA, idB} :
                Eval(chain, active) =
                  IF idA \in active THEN (IF idB \in active THEN y ELSE x) ELSE base

\* A nested object resolved with three different values, B inside A.
C4_Witness ==
    /\ NestedCase
    /\ ret.styles = <<Entry("padding", Str("x")),
                      Entry("hover", Obj(<<Entry("padding", Num(0)),
                                           Entry("dark", Obj(<<Entry("padding", Str("y"))>>))>>))>>
    /\ Len(ret.out) = 1

RECURSIVE BaseMap(_, _, _)
BaseMap(styles, i, out) ==
    IF i > Len(styles) THEN out
    ELSE IF styles[i].k = "p"
         THEN BaseMap(styles, i + 1,
                MapSet(out, "padding", Str(Times4Px(styles[i].v))))
         ELSE BaseMap(styles, i + 1, MapSet(out, styles[i].k, styles[i].v))

\* C6: for an object none of whose keys is registered, style returns the
\* map of the base pass and reports nothing; so style({k: v}) = {k: v} for a
\* key without expander, style({k: v}) = f(v) for a shorthand key, and an
\* unregistered condition-shaped key passes through as a literal property.
C6_BasePass ==
    (ret.kind = "style" /\ \A i \in 1..Len(ret.styles) : ret.styles[i].k \notin DOMAIN conditionIdMap) =>
      /\ ret.out = BaseMap(ret.styles, 1, <<>>)
      /\ console = <<>>
      /\ Len(ret.styles) = 1 =>
           IF ret.styles[1].k = "p"
           THEN ret.out = <<Entry("padding", Str(Times4Px(ret.styles[1].v)))>>
           ELSE ret.out = ret.styles

\* The shorthand overwrites a literal entry, next to a typo key holding an object.
C6_Witness ==
    /\ ret.kind = "style"
    /\ "dark" \notin DOMAIN conditionIdMap
    /\ ret.styles = <<Entry("padding", Str("x")), Entry("p", Num(0)),
                      Entry("dark", Obj(<<>>))>>
    /\ ret.out = <<Entry("padding", Str("0px")), Entry("dark", Obj(<<>>))>>

\* The registered keys of styles whose value is not an object.
MalformedAt(map, styles) ==
    {i \in 1..Len(styles) : styles[i].k \in DOMAIN map /\ ~IsObject(styles[i].v)}

\* styles with one malformed condition key removed, at any depth.
RECURSIVE WithoutOne(_, _)
WithoutOne(map, styles) ==
    {RemoveAt(styles, i) : i \in MalformedAt(map, styles)}
    \cup UNION {{[styles EXCEPT ![i].v = Obj(o)] : o \in WithoutOne(map, styles[i].v.o)} :
                  i \in Queued(map, styles)}

\* The diagnostics due for styles: one per malformed condition key.
RECURSIVE Diagnostics(_, _)
Diagnostics(map, styles) ==
    {[key |-> styles[i].k, received |-> styles[i].v] : i \in MalformedAt(map, styles)}
    \cup UNION {Diagnostics(map, styles[i].v.o) : i \in Queued(map, styles)}

RECURSIVE MalformedCount(_, _)
RECURSIVE SumOver(_, _, _)
SumOver(map, styles, indexes) ==
    IF indexes = {} THEN 0
    ELSE LET i == CHOOSE j \in indexes : TRUE
         IN  MalformedCount(map, styles[i].v.o) + SumOver(map, styles, indexes \ {i})
MalformedCount(map, styles) ==
    Cardinality(MalformedAt(map, styles)) + SumOver(map, styles, Queued(map, styles))

\* C7: a registered condition key whose value is not an object, at any
\* depth, does not stop the call: a diagnostic is reported for the key and
\* the map returned is the map for the same object with that key removed.
C7_Malformed ==
    ret.kind = "style" =>
      /\ \A without \in WithoutOne(conditionIdMap, ret.styles) :
            processStyles(conditionIdMap, without).pStyles = ret.out
      /\ {console[i] : i \in 1..Len(console)} = Diagnostics(conditionIdMap, ret.styles)
      /\ Len(console) = MalformedCount(conditionIdMap, ret.styles)

\* A malformed condition one level down, beside a property that is kept.
C7_Witness ==
    /\ ret.kind = "style"
    /\ ret.styles = <<Entry("hover", Obj(<<Entry("dark", Str("x")),
                                           Entry("padding", Str("x"))>>))>>
    /\ "dark" \in DOMAIN conditionIdMap
    /\ console = <<[key |-> "dark", received |-> Str("x")]>>
    /\ Len(ret.out) = 1
====
